---- MODULE Spec2Model ----
(***************************************************************************)
(* AsyncEventListener<T> of Firestore/core/.../core/event_listener.h.      *)
(*                                                                         *)
(* Threads call OnEvent and Mute on listeners; the executor runs the       *)
(* submitted delivery tasks on threads of its own.  Each thread has a call *)
(* stack of frames; the delegate (user code) runs inside a delivery task   *)
(* and may call back into Mute and OnEvent.                                *)
(***************************************************************************)
EXTENDS Integers, Sequences, FiniteSets, TLC

----------------------------------------------------------------------------
(* Bounds of the model. *)

\* Total number of OnEvent calls in a run.
MaxEvents == 2

\* Total number of Mute calls in a run.
MaxMutes == 2

\* The same two totals for the larger runs: two listeners, or fairness.
SmallMaxEvents == 2

SmallMaxMutes == 1

Listeners == {"L1", "L2"}

Threads == {"t1", "t2"}

\* util::StatusOr<T> payloads: two success values and one error status.
Payloads == {<<"ok", 5>>, <<"ok", 6>>, <<"error", 13>>}

\* How the executor runs tasks: one at a time in submission order, or any
\* queued task on any free thread.
ExecutorModes == {"serial", "concurrent"}

None == "none"

NoPayload == <<"none", 0>>

\* The payloads passed in the larger runs.
SmallPayloads == {<<"ok", 5>>}

\* What the callers of a run do at most: OnEvent calls, Mute calls, payloads.
Limits(events, mutes, payloads) ==
    [events |-> events, mutes |-> mutes, payloads |-> payloads]

----------------------------------------------------------------------------
VARIABLES
    muted,          \* muted_ of each listener
    owner,          \* mutex_: the thread that owns it, or None
    depth,          \* mutex_: how many times its owner has locked it
    refs,           \* strong count of the shared_ptr control block
    external,       \* the owner outside (registration) still holds its reference
    destroyed,      \* ~AsyncEventListener has run
    queue,          \* executor: the submitted tasks not yet started
    mode,           \* executor: its scheduling discipline
    limits,         \* callers: what they do at most in this run
    stack,          \* per thread: sequence of frames, innermost last
    nextId,         \* number of OnEvent calls made so far
    muteCalls,      \* number of Mute calls made so far
    waitingMute,    \* history: threads whose Mute began during another thread's delegate call
    callbackArgs,   \* history: per listener, the calls of the delegate's callback_
    submitted,      \* history: per listener, the OnEvent calls in order
    delivered,      \* history: per listener, the delegate invocations in order
    muteSet,        \* history: some Mute has executed `muted_ = true`
    muteReturned,   \* history: some Mute call has returned
    muteReturnedOutside, \* history: ... to a thread not inside this delegate
    lockedAfterReturn,   \* history: tasks that took the lock after a Mute returned
    checkedBeforeSet     \* history: tasks that made the muted check before any set

vars == <<muted, owner, depth, refs, external, destroyed, queue, mode,
          limits, stack, nextId, muteCalls, waitingMute, callbackArgs, submitted,
          delivered, muteSet, muteReturned, muteReturnedOutside,
          lockedAfterReturn, checkedBeforeSet>>

prog == <<muted, owner, depth, refs, external, destroyed, queue, mode,
          limits>>

hist == <<callbackArgs, submitted, delivered, muteSet, muteReturned,
          muteReturnedOutside, lockedAfterReturn, checkedBeforeSet>>

----------------------------------------------------------------------------
(* Frames. *)

Frame(k, l, pc, id, ev) == [kind |-> k, l |-> l, pc |-> pc, id |-> id, ev |-> ev]

Top(t) == stack[t][Len(stack[t])]

Idle(t) == stack[t] = <<>>

Push(t, f) == [stack EXCEPT ![t] = Append(@, f)]

Pop(t) == [stack EXCEPT ![t] = SubSeq(@, 1, Len(@) - 1)]

SetPc(t, pc) == [stack EXCEPT ![t][Len(stack[t])].pc = pc]

\* Thread t is inside the delegate's OnEvent of listener l.
InDelegate(t, l) ==
    \E i \in 1..Len(stack[t]) :
        /\ stack[t][i].kind = "task"
        /\ stack[t][i].l = l
        /\ stack[t][i].pc = "delegate"

\* Thread t can make a call from where it is: it is idle (a fresh call from
\* outside) or the delegate is running on top of its stack.
CanCall(t) ==
    \/ Idle(t)
    \/ /\ ~Idle(t)
       /\ Top(t).kind = "task"
       /\ Top(t).pc = "delegate"

\* The caller on thread t has a reference to listener l to call through: the
\* external owner's, or the shared_this of the delivery task it is inside.
HasReference(t, l) == external[l] \/ InDelegate(t, l)

\* Some call on l is in progress through the external owner's reference.
ExternalCallInProgress(l) ==
    \E t \in Threads : \E i \in 1..Len(stack[t]) :
        /\ stack[t][i].l = l
        /\ stack[t][i].kind \in {"mute", "onevent"}
        /\ ~InDelegate(t, l)

TasksOf(l) ==
    {q \in 1..Len(queue) : queue[q].l = l}

Running(l) ==
    {t \in Threads : \E i \in 1..Len(stack[t]) :
        stack[t][i].kind = "task" /\ stack[t][i].l = l}

----------------------------------------------------------------------------
(* std::recursive_mutex. *)

\* Variant: one mutex shared by all listeners (a static member).
CanAcquireShared(t, l) == \A k \in Listeners : owner[k] \in {None, t}

\* Variant: the lock excludes nobody.
CanAcquireAlways(t, l) == TRUE

\* Variant: a plain std::mutex, which its own owner cannot lock again.
CanAcquireNonRecursive(t, l) == owner[l] = None

CanAcquire(t, l) == owner[l] \in {None, t}

Acquire(t, l) ==
    /\ CanAcquire(t, l)
    /\ owner' = [owner EXCEPT ![l] = t]
    /\ depth' = [depth EXCEPT ![l] = @ + 1]

\* Variant: a lock() that is never paired with an unlock().
ReleaseNever(t, l) == UNCHANGED <<owner, depth>>

Release(t, l) ==
    /\ owner' = [owner EXCEPT ![l] = IF depth[l] = 1 THEN None ELSE @]
    /\ depth' = [depth EXCEPT ![l] = @ - 1]

----------------------------------------------------------------------------
(* std::shared_ptr<AsyncEventListener<T>>. *)

\* Variant: the closure captures a raw `this`, no strong reference.
CaptureRawThis(l) == refs[l]

\* shared_from_this(): one more strong reference.
SharedFromThis(l) == refs[l] + 1

\* A strong reference goes away; the last one runs the destructor.
DropStrong(l) ==
    /\ refs' = [refs EXCEPT ![l] = @ - 1]
    /\ destroyed' = [destroyed EXCEPT ![l] = @ \/ refs[l] - 1 = 0]

----------------------------------------------------------------------------
\* The state after AsyncEventListener::Create has built the listeners of
\* `created` (each held by its owner outside) over an executor of mode m,
\* for callers that stay within lim.
InitWith(created, m, lim) ==
    /\ muted = [l \in Listeners |-> FALSE]
    /\ owner = [l \in Listeners |-> None]
    /\ depth = [l \in Listeners |-> 0]
    /\ refs = [l \in Listeners |-> IF l \in created THEN 1 ELSE 0]
    /\ external = [l \in Listeners |-> l \in created]
    /\ destroyed = [l \in Listeners |-> FALSE]
    /\ queue = <<>>
    /\ mode = m
    /\ limits = lim
    /\ stack = [t \in Threads |-> <<>>]
    /\ nextId = 0
    /\ muteCalls = 0
    /\ waitingMute = {}
    /\ callbackArgs = [l \in Listeners |-> <<>>]
    /\ submitted = [l \in Listeners |-> <<>>]
    /\ delivered = [l \in Listeners |-> <<>>]
    /\ muteSet = [l \in Listeners |-> FALSE]
    /\ muteReturned = [l \in Listeners |-> FALSE]
    /\ muteReturnedOutside = [l \in Listeners |-> FALSE]
    /\ lockedAfterReturn = {}
    /\ checkedBeforeSet = {}

\* One listener, an executor that runs any queued task on any free thread.
Init == InitWith({"L1"}, "concurrent", Limits(MaxEvents, MaxMutes, Payloads))

\* One listener, an executor that runs one task at a time in submission order.
InitSerial == InitWith({"L1"}, "serial", Limits(MaxEvents, MaxMutes, Payloads))

\* One listener and a concurrent executor, for the runs under fairness.
InitFair ==
    InitWith({"L1"}, "concurrent",
             Limits(SmallMaxEvents, SmallMaxMutes, SmallPayloads))

\* Two listeners sharing one concurrent executor.
InitPair ==
    InitWith(Listeners, "concurrent",
             Limits(SmallMaxEvents, SmallMaxMutes, SmallPayloads))

----------------------------------------------------------------------------
(* util::Executor, as the listener uses it. *)

\* Execute(task): the task is queued behind those already submitted.
Execute(task) == Append(queue, task)

\* The executor may start the q-th queued task on thread t.
MayStart(t, q) ==
    /\ Idle(t)
    /\ q \in 1..Len(queue)
    /\ mode = "serial" =>
        /\ q = 1
        /\ \A l \in Listeners : Running(l) = {}

Dequeue(q) == SubSeq(queue, 1, q - 1) \o SubSeq(queue, q + 1, Len(queue))

----------------------------------------------------------------------------
(* AsyncEventListener<T>::OnEvent, the caller's part. *)

\* [shared_this, maybe_value]: the closure's copy of the event.
CapturedValue(v) == v

\* shared_this = this->shared_from_this()
OnEventCall(t, l, e) ==
    /\ CanCall(t)
    /\ HasReference(t, l)
    /\ nextId < limits.events
    /\ e \in limits.payloads
    /\ nextId' = nextId + 1
    /\ refs' = [refs EXCEPT ![l] = SharedFromThis(l)]
    /\ stack' = Push(t, Frame("onevent", l, "execute", nextId + 1, e))
    /\ UNCHANGED <<muted, owner, depth, external, destroyed, queue, mode,
                   limits, muteCalls, waitingMute, hist>>

\* Variant: OnEvent calls the delegate itself instead of submitting a task.
OnEventSubmitSync(t) ==
    /\ ~Idle(t)
    /\ Top(t).kind = "onevent"
    /\ Top(t).pc = "execute"
    /\ delivered' = [delivered EXCEPT ![Top(t).l] =
                        Append(@, [id |-> Top(t).id, ev |-> Top(t).ev])]
    /\ submitted' = [submitted EXCEPT ![Top(t).l] =
                        Append(@, [id |-> Top(t).id, ev |-> Top(t).ev])]
    /\ stack' = Pop(t)
    /\ UNCHANGED <<prog, nextId, muteCalls, callbackArgs, waitingMute,
                   muteSet, muteReturned, muteReturnedOutside,
                   lockedAfterReturn, checkedBeforeSet>>

\* Variant: OnEvent on a muted listener returns without submitting a task.
OnEventSubmitUnlessMuted(t) ==
    /\ ~Idle(t)
    /\ Top(t).kind = "onevent"
    /\ Top(t).pc = "execute"
    /\ queue' = IF muted[Top(t).l]
                THEN queue
                ELSE Execute([l |-> Top(t).l, id |-> Top(t).id, ev |-> Top(t).ev])
    /\ submitted' = [submitted EXCEPT ![Top(t).l] =
                        Append(@, [id |-> Top(t).id, ev |-> Top(t).ev])]
    /\ stack' = Pop(t)
    /\ UNCHANGED <<muted, owner, depth, refs, external, destroyed, mode,
                   limits, nextId, muteCalls, callbackArgs, waitingMute,
                   delivered, muteSet, muteReturned, muteReturnedOutside,
                   lockedAfterReturn, checkedBeforeSet>>

\* Variant: OnEvent takes mutex_ around the submission.
OnEventSubmitLocked(t) ==
    /\ ~Idle(t)
    /\ Top(t).kind = "onevent"
    /\ Top(t).pc = "execute"
    /\ CanAcquire(t, Top(t).l)
    /\ queue' = Execute([l |-> Top(t).l, id |-> Top(t).id, ev |-> Top(t).ev])
    /\ submitted' = [submitted EXCEPT ![Top(t).l] =
                        Append(@, [id |-> Top(t).id, ev |-> Top(t).ev])]
    /\ stack' = Pop(t)
    /\ UNCHANGED <<muted, owner, depth, refs, external, destroyed, mode,
                   limits, nextId, muteCalls, callbackArgs, waitingMute,
                   delivered, muteSet, muteReturned, muteReturnedOutside,
                   lockedAfterReturn, checkedBeforeSet>>

\* executor_->Execute([shared_this, maybe_value]() {...}) and return
OnEventSubmit(t) ==
    /\ ~Idle(t)
    /\ Top(t).kind = "onevent"
    /\ Top(t).pc = "execute"
    /\ queue' = Execute([l |-> Top(t).l, id |-> Top(t).id,
                         ev |-> CapturedValue(Top(t).ev)])
    /\ submitted' = [submitted EXCEPT ![Top(t).l] =
                        Append(@, [id |-> Top(t).id, ev |-> Top(t).ev])]
    /\ stack' = Pop(t)
    /\ UNCHANGED <<muted, owner, depth, refs, external, destroyed, mode,
                   limits, nextId, muteCalls, callbackArgs, waitingMute,
                   delivered, muteSet, muteReturned, muteReturnedOutside,
                   lockedAfterReturn, checkedBeforeSet>>

----------------------------------------------------------------------------
(* The delivery task: the lambda OnEvent hands to the executor. *)

\* The executor starts a queued task on one of its threads.
TaskStart(t, q) ==
    /\ MayStart(t, q)
    /\ stack' = Push(t, Frame("task", queue[q].l, "lock", queue[q].id, queue[q].ev))
    /\ queue' = Dequeue(q)
    /\ UNCHANGED <<muted, owner, depth, refs, external, destroyed, mode,
                   limits, nextId, muteCalls, waitingMute, hist>>

\* std::lock_guard<std::recursive_mutex> lock(shared_this->mutex_)
TaskLock(t) ==
    /\ ~Idle(t)
    /\ Top(t).kind = "task"
    /\ Top(t).pc = "lock"
    /\ Acquire(t, Top(t).l)
    /\ stack' = SetPc(t, "check")
    /\ lockedAfterReturn' = IF muteReturned[Top(t).l]
                            THEN lockedAfterReturn \cup {Top(t).id}
                            ELSE lockedAfterReturn
    /\ UNCHANGED <<muted, refs, external, destroyed, queue, mode, limits,
                   nextId, muteCalls, callbackArgs, waitingMute, submitted,
                   delivered, muteSet, muteReturned, muteReturnedOutside,
                   checkedBeforeSet>>

\* Variant: the delegate is handed a default value in place of an error.
ForwardedValueDropsError(v) == IF v[1] = "error" THEN <<"ok", 0>> ELSE v

\* delegate_->OnEvent(std::move(maybe_value)): the value the delegate gets.
ForwardedValue(v) == v

\* CallbackEventListener::OnEvent: callback_(std::move(maybe_value)).
CallbackValue(v) == v

\* Variant: the task does not look at muted_.
ShouldDeliverAlways(l) == TRUE

\* Variant: the condition inverted, if (shared_this->muted_).
ShouldDeliverInverted(l) == muted[l]

\* if (!shared_this->muted_)
ShouldDeliver(l) == ~muted[l]

\* The muted check and, when it passes, the entry into delegate_->OnEvent.
TaskCheck(t) ==
    /\ ~Idle(t)
    /\ Top(t).kind = "task"
    /\ Top(t).pc = "check"
    /\ IF ShouldDeliver(Top(t).l)
       THEN /\ stack' = SetPc(t, "delegate")
            /\ delivered' = [delivered EXCEPT ![Top(t).l] =
                                Append(@, [id |-> Top(t).id,
                                           ev |-> ForwardedValue(Top(t).ev)])]
            /\ callbackArgs' = [callbackArgs EXCEPT ![Top(t).l] =
                                Append(@, [id |-> Top(t).id,
                                           ev |-> CallbackValue(ForwardedValue(Top(t).ev))])]
       ELSE /\ stack' = SetPc(t, "done")
            /\ UNCHANGED <<delivered, callbackArgs>>
    /\ checkedBeforeSet' = IF muteSet[Top(t).l]
                           THEN checkedBeforeSet
                           ELSE checkedBeforeSet \cup {Top(t).id}
    /\ UNCHANGED <<prog, nextId, muteCalls, waitingMute, submitted, muteSet,
                   muteReturned, muteReturnedOutside, lockedAfterReturn>>

\* The delegate has returned, or was skipped: the lock_guard unlocks, the
\* lambda returns and the closure's shared_this is released.
TaskFinish(t) ==
    /\ ~Idle(t)
    /\ Top(t).kind = "task"
    /\ Top(t).pc \in {"delegate", "done"}
    /\ Release(t, Top(t).l)
    /\ DropStrong(Top(t).l)
    /\ stack' = Pop(t)
    /\ UNCHANGED <<muted, external, queue, mode, limits, nextId, muteCalls,
                   waitingMute, hist>>

----------------------------------------------------------------------------
(* AsyncEventListener<T>::Mute. *)

MuteCall(t, l) ==
    /\ CanCall(t)
    /\ HasReference(t, l)
    /\ muteCalls < limits.mutes
    /\ muteCalls' = muteCalls + 1
    /\ stack' = Push(t, Frame("mute", l, "lock", 0, NoPayload))
    /\ waitingMute' = IF \E u \in Threads \ {t} : InDelegate(u, l)
                      THEN waitingMute \cup {t}
                      ELSE waitingMute
    /\ UNCHANGED <<prog, nextId, hist>>

\* std::lock_guard<std::recursive_mutex> lock(mutex_)
MuteLock(t) ==
    /\ ~Idle(t)
    /\ Top(t).kind = "mute"
    /\ Top(t).pc = "lock"
    /\ Acquire(t, Top(t).l)
    /\ stack' = SetPc(t, "set")
    /\ UNCHANGED <<muted, refs, external, destroyed, queue, mode, limits,
                   nextId, muteCalls, waitingMute, hist>>

\* Variant: Mute toggles the flag, muted_ = !muted_.
MuteToggles(l) == ~muted[l]

\* The value Mute stores in muted_.
MutedAfterMute(l) == TRUE

\* muted_ = true
MuteSet(t) ==
    /\ ~Idle(t)
    /\ Top(t).kind = "mute"
    /\ Top(t).pc = "set"
    /\ muted' = [muted EXCEPT ![Top(t).l] = MutedAfterMute(Top(t).l)]
    /\ muteSet' = [muteSet EXCEPT ![Top(t).l] = TRUE]
    /\ stack' = SetPc(t, "unlock")
    /\ UNCHANGED <<owner, depth, refs, external, destroyed, queue, mode,
                   limits, nextId, muteCalls, callbackArgs, waitingMute,
                   submitted, delivered, muteReturned, muteReturnedOutside,
                   lockedAfterReturn, checkedBeforeSet>>

\* The lock_guard unlocks and Mute returns to its caller.
MuteReturn(t) ==
    /\ ~Idle(t)
    /\ Top(t).kind = "mute"
    /\ Top(t).pc = "unlock"
    /\ Release(t, Top(t).l)
    /\ stack' = Pop(t)
    /\ waitingMute' = waitingMute \ {t}
    /\ muteReturned' = [muteReturned EXCEPT ![Top(t).l] = TRUE]
    /\ muteReturnedOutside' = [muteReturnedOutside EXCEPT ![Top(t).l] =
                                  @ \/ ~InDelegate(t, Top(t).l)]
    /\ UNCHANGED <<muted, refs, external, destroyed, queue, mode, limits,
                   nextId, muteCalls, callbackArgs, submitted, delivered,
                   muteSet, lockedAfterReturn, checkedBeforeSet>>

----------------------------------------------------------------------------
(* The owner outside drops its shared_ptr to the listener. *)

ReleaseExternal(l) ==
    /\ external[l]
    /\ ~ExternalCallInProgress(l)
    /\ external' = [external EXCEPT ![l] = FALSE]
    /\ DropStrong(l)
    /\ UNCHANGED <<muted, owner, depth, queue, mode, limits, stack, nextId,
                   muteCalls, waitingMute, hist>>

----------------------------------------------------------------------------
Next ==
    \/ \E t \in Threads, l \in Listeners, e \in Payloads : OnEventCall(t, l, e)
    \/ \E t \in Threads : OnEventSubmit(t)
    \/ \E t \in Threads, q \in 1..Len(queue) : TaskStart(t, q)
    \/ \E t \in Threads : TaskLock(t)
    \/ \E t \in Threads : TaskCheck(t)
    \/ \E t \in Threads : TaskFinish(t)
    \/ \E t \in Threads, l \in Listeners : MuteCall(t, l)
    \/ \E t \in Threads : MuteLock(t)
    \/ \E t \in Threads : MuteSet(t)
    \/ \E t \in Threads : MuteReturn(t)
    \/ \E l \in Listeners : ReleaseExternal(l)

Spec == Init /\ [][Next]_vars

SerialSpec == InitSerial /\ [][Next]_vars

PairSpec == InitPair /\ [][Next]_vars

\* A thread that is inside a call goes on with it: it submits, locks when the
\* lock lets it, checks, returns from the delegate, unlocks.
ThreadStep(t) ==
    \/ OnEventSubmit(t)
    \/ TaskLock(t)
    \/ TaskCheck(t)
    \/ TaskFinish(t)
    \/ MuteLock(t)
    \/ MuteSet(t)
    \/ MuteReturn(t)

\* The executor starts some queued task when a thread of its own is free.
ExecutorStep == \E t \in Threads, q \in 1..Len(queue) : TaskStart(t, q)

\* Threads are scheduled fairly, every delegate call returns and the executor
\* eventually runs what was submitted.
FairSpec ==
    /\ InitFair
    /\ [][Next]_vars
    /\ \A t \in Threads : WF_vars(ThreadStep(t))
    /\ WF_vars(ExecutorStep)

----------------------------------------------------------------------------
TypeOK ==
    /\ muted \in [Listeners -> BOOLEAN]
    /\ owner \in [Listeners -> Threads \cup {None}]
    /\ \A l \in Listeners : depth[l] \in 0..2
    /\ \A l \in Listeners : refs[l] \in 0..(MaxEvents + 1)
    /\ nextId \in 0..MaxEvents
    /\ muteCalls \in 0..MaxMutes
    /\ \A t \in Threads : Len(stack[t]) <= 2

----------------------------------------------------------------------------
(* Helpers of the properties. *)

Ids(seq) == {seq[i].id : i \in 1..Len(seq)}

IsPrefix(a, b) == Len(a) <= Len(b) /\ SubSeq(b, 1, Len(a)) = a

AllIdle == \A t \in Threads : Idle(t)

\* The frames on thread t's stack that hold (or held) the lock of l.
LockedFrames(t, l) ==
    {i \in 1..Len(stack[t]) :
        /\ stack[t][i].l = l
        /\ \/ stack[t][i].kind = "task" /\ stack[t][i].pc \in {"check", "delegate", "done"}
           \/ stack[t][i].kind = "mute" /\ stack[t][i].pc \in {"set", "unlock"}}

\* Thread t's innermost frame is a Mute of the listener whose delegate is
\* running below it on the same thread.
NestedMute(t) ==
    /\ ~Idle(t)
    /\ Top(t).kind = "mute"
    /\ InDelegate(t, Top(t).l)

----------------------------------------------------------------------------
(* C1 *)

\* C1: once a Mute call has returned, a delivery task that begins its locked
\* section after that return never invokes the delegate, whether it was
\* submitted before or after the Mute.
C1_NoDeliveryAfterMuteReturns ==
    \A l \in Listeners :
        /\ Ids(delivered[l]) \cap lockedAfterReturn = {}
        /\ \A t \in Threads : \A i \in 1..Len(stack[t]) :
            (stack[t][i].kind = "task" /\ stack[t][i].id \in lockedAfterReturn)
                => stack[t][i].pc # "delegate"

\* Two tasks have each taken the lock after a Mute call had returned, and
\* both have completed without a delivery.
C1_Witness ==
    /\ AllIdle
    /\ queue = <<>>
    /\ \E l \in Listeners :
        /\ Len(submitted[l]) = 2
        /\ Ids(submitted[l]) \subseteq lockedAfterReturn
        /\ delivered[l] = <<>>

----------------------------------------------------------------------------
(* C2 *)

\* C2: once a Mute call has returned to a thread that is not inside a delegate
\* call of the listener, no thread is executing the delegate's OnEvent of that
\* listener, at that moment or ever after.
C2_NoDelegateAfterOutsideMute ==
    \A l \in Listeners :
        muteReturnedOutside[l] => \A t \in Threads : ~InDelegate(t, l)

\* A Mute from outside has returned after a delegate call was made, while
\* another delivery task of the listener is queued or underway.
C2_Witness ==
    \E l \in Listeners :
        /\ muteReturnedOutside[l]
        /\ Len(delivered[l]) = 1
        /\ \E t \in Threads :
            /\ ~Idle(t)
            /\ Top(t).kind = "task"
            /\ Top(t).l = l
            /\ Top(t).pc = "done"

----------------------------------------------------------------------------
(* C3 *)

\* C3: a Mute called from inside the delegate, on the thread running the
\* delivery task of the same listener, is never blocked: it can take the lock
\* its thread already holds, set muted and return, after which the enclosing
\* task can finish, and a thread that has left its task no longer owns the lock.
C3_NestedMuteNeverBlocked ==
    /\ \A t \in Threads :
        NestedMute(t) =>
            /\ Top(t).pc = "lock" => ENABLED MuteLock(t)
            /\ Top(t).pc = "set" => ENABLED MuteSet(t)
            /\ Top(t).pc = "unlock" => muted[Top(t).l] /\ ENABLED MuteReturn(t)
    /\ \A t \in Threads :
        (~Idle(t) /\ Top(t).kind = "task" /\ Top(t).pc = "delegate")
            => ENABLED TaskFinish(t)
    /\ \A t \in Threads, l \in Listeners : Idle(t) => owner[l] # t

\* A nested Mute has run to its return and the enclosing task has finished,
\* leaving the lock free.
C3_Witness ==
    /\ AllIdle
    /\ \E l \in Listeners :
        /\ muteReturned[l]
        /\ ~muteReturnedOutside[l]
        /\ muted[l]
        /\ owner[l] = None

----------------------------------------------------------------------------
(* C4 *)

\* C4: the listener is never destroyed while a delivery task submitted by its
\* OnEvent is queued or running: every such task accounts for one strong
\* reference, whatever the owner outside has done with its own.
C4_AliveWhileTaskPending ==
    \A l \in Listeners :
        (TasksOf(l) # {} \/ Running(l) # {}) =>
            /\ ~destroyed[l]
            /\ refs[l] >= Cardinality(TasksOf(l)) + Cardinality(Running(l))

\* The owner outside has dropped its reference and the delegate is being
\* invoked by a task that was queued.
C4_Witness ==
    \E l \in Listeners :
        /\ ~external[l]
        /\ ~destroyed[l]
        /\ \E t \in Threads : InDelegate(t, l)

----------------------------------------------------------------------------
(* C5 *)

\* C5: the delegate is invoked at most once per OnEvent call, and for exactly
\* the events whose task made its muted check before the flag was set; with
\* receive(5), task run, Mute, receive(6), task run it is called once, with 5.
C5_DeliveredExactlyUnmutedChecks ==
    \A l \in Listeners :
        /\ Cardinality(Ids(delivered[l])) = Len(delivered[l])
        /\ \A i \in 1..Len(delivered[l]) :
            \E j \in 1..Len(submitted[l]) : submitted[l][j] = delivered[l][i]
        /\ Ids(delivered[l]) = Ids(submitted[l]) \cap checkedBeforeSet
        /\ ( /\ AllIdle
             /\ queue = <<>>
             /\ submitted[l] = <<[id |-> 1, ev |-> <<"ok", 5>>],
                                 [id |-> 2, ev |-> <<"ok", 6>>]>>
             /\ checkedBeforeSet = {1}
             /\ 2 \in lockedAfterReturn )
           => delivered[l] = <<[id |-> 1, ev |-> <<"ok", 5>>]>>

\* The scenario has run: 5 was delivered, Mute returned, 6 was received and
\* its task ran without a delivery.
C5_Witness ==
    /\ AllIdle
    /\ queue = <<>>
    /\ \E l \in Listeners :
        /\ submitted[l] = <<[id |-> 1, ev |-> <<"ok", 5>>],
                            [id |-> 2, ev |-> <<"ok", 6>>]>>
        /\ checkedBeforeSet = {1}
        /\ 2 \in lockedAfterReturn
        /\ muteReturnedOutside[l]
        /\ Len(delivered[l]) = 1

----------------------------------------------------------------------------
(* C6 *)

\* C6: no two invocations of the delegate's OnEvent of one listener are in
\* progress at the same time, however the executor runs the tasks.
C6_DelegateCallsSerialized ==
    \A l \in Listeners :
        Cardinality({t \in Threads : InDelegate(t, l)}) <= 1

\* One thread is inside the delegate while another thread has started a task
\* of the same listener and waits for the lock.
C6_Witness ==
    \E l \in Listeners : \E t, u \in Threads :
        /\ t # u
        /\ InDelegate(t, l)
        /\ ~Idle(u)
        /\ Top(u).kind = "task"
        /\ Top(u).l = l
        /\ Top(u).pc = "lock"

----------------------------------------------------------------------------
(* C7 *)

\* A step of a Mute call on listener l executing `muted_ = true`.
MuteSetStep(l) ==
    \E t \in Threads :
        /\ ~Idle(t)
        /\ Top(t).kind = "mute"
        /\ Top(t).l = l
        /\ Top(t).pc = "set"
        /\ stack'[t] # stack[t]

\* C7: muted is false at construction and monotonic: once true it stays true,
\* and only the assignment in Mute changes it.
C7_MutedMonotonic ==
    /\ \A l \in Listeners : ~muted[l]
    /\ [][\A l \in Listeners :
            /\ muted[l] => muted'[l]
            /\ muted'[l] # muted[l] => MuteSetStep(l)]_vars

\* A muted listener on which a second Mute has run and a task has made its
\* check since.
C7_Witness ==
    \E l \in Listeners :
        /\ muted[l]
        /\ muteCalls = 2
        /\ muteReturnedOutside[l]
        /\ \E t \in Threads :
            /\ ~Idle(t)
            /\ Top(t).kind = "task"
            /\ Top(t).l = l
            /\ Top(t).pc = "done"
            /\ Top(t).id \in lockedAfterReturn

----------------------------------------------------------------------------
(* C8 *)

\* C8: a Mute on an already muted listener changes nothing: each of its steps
\* leaves the flag, the queued tasks, the deliveries and the reference count
\* as they were, and its return leaves the lock as it was before the call.
C8_MuteIdempotent ==
    [][\A t \in Threads :
        ( /\ ~Idle(t)
          /\ Top(t).kind = "mute"
          /\ muted[Top(t).l]
          /\ stack'[t] # stack[t] )
        => /\ muted' = muted
           /\ queue' = queue
           /\ delivered' = delivered
           /\ refs' = refs
           /\ destroyed' = destroyed
           /\ Len(stack'[t]) < Len(stack[t]) =>
                /\ owner'[Top(t).l] = IF InDelegate(t, Top(t).l) THEN t ELSE None
                /\ depth'[Top(t).l] = IF InDelegate(t, Top(t).l) THEN 1 ELSE 0]_vars

\* Two Mute calls from outside have returned, one after the other, and the
\* lock is free.
C8_Witness ==
    \E l \in Listeners :
        /\ AllIdle
        /\ muteCalls = 2
        /\ muted[l]
        /\ muteReturnedOutside[l]
        /\ owner[l] = None
        /\ depth[l] = 0

----------------------------------------------------------------------------
(* C9 *)

\* C9: with an executor that runs tasks one at a time in submission order and
\* with no Mute call, the delegate receives the events passed to OnEvent in
\* the same order: always a prefix of them, and all of them once every task
\* has run.
C9_InOrderDelivery ==
    (mode = "serial" /\ muteCalls = 0) =>
        \A l \in Listeners :
            /\ IsPrefix(delivered[l], submitted[l])
            /\ (TasksOf(l) = {} /\ Running(l) = {}) => delivered[l] = submitted[l]

\* Two events with different payloads have been received and delivered.
C9_Witness ==
    /\ mode = "serial"
    /\ muteCalls = 0
    /\ AllIdle
    /\ queue = <<>>
    /\ \E l \in Listeners :
        /\ Len(delivered[l]) = 2
        /\ delivered[l][1].ev # delivered[l][2].ev

----------------------------------------------------------------------------
(* C10 *)

\* C10: OnEvent does not call the delegate synchronously: no step of the
\* caller's part of OnEvent invokes the delegate, and the only effect of the
\* call on the listener and the executor is one task submitted.
C10_OnEventOnlySubmits ==
    [][\A t \in Threads :
        /\ ( /\ Len(stack'[t]) > Len(stack[t])
             /\ stack'[t][Len(stack'[t])].kind = "onevent" )
           => /\ delivered' = delivered
              /\ queue' = queue
              /\ muted' = muted
              /\ owner' = owner
        /\ ( /\ ~Idle(t)
             /\ Top(t).kind = "onevent"
             /\ stack'[t] # stack[t] )
           => /\ delivered' = delivered
              /\ queue' = Append(queue, [l |-> Top(t).l, id |-> Top(t).id,
                                         ev |-> Top(t).ev])
              /\ muted' = muted
              /\ owner' = owner
              /\ \A u \in Threads, l \in Listeners :
                    InDelegate(u, l)' => InDelegate(u, l)]_vars

\* OnEvent has returned to an idle caller: the task is queued and the
\* delegate has not been called.
C10_Witness ==
    \E l \in Listeners :
        /\ AllIdle
        /\ Len(submitted[l]) = 1
        /\ TasksOf(l) # {}
        /\ delivered[l] = <<>>
        /\ ~muted[l]

----------------------------------------------------------------------------
(* C11 *)

\* Some thread other than t owns the lock of l.
LockHeldByOther(t, l) == owner[l] \notin {None, t}

\* C11: OnEvent never waits for the listener's lock: a caller holding a
\* reference can enter OnEvent, and a caller inside OnEvent can submit its
\* task and return, in every state, whoever holds the lock.
C11_OnEventNeverWaits ==
    \A t \in Threads :
        /\ (~Idle(t) /\ Top(t).kind = "onevent") => ENABLED OnEventSubmit(t)
        /\ \A l \in Listeners :
            (CanCall(t) /\ HasReference(t, l) /\ nextId < limits.events)
                => \A e \in limits.payloads : ENABLED OnEventCall(t, l, e)

\* A caller is inside OnEvent while another thread holds the lock inside a
\* delegate call.
C11_Witness ==
    \E t, u \in Threads : \E l \in Listeners :
        /\ ~Idle(t)
        /\ Top(t).kind = "onevent"
        /\ Top(t).l = l
        /\ LockHeldByOther(t, l)
        /\ InDelegate(u, l)

----------------------------------------------------------------------------
(* C12 *)

\* The step in which thread t enters the delegate's OnEvent of listener l.
DelegateEntered(t, l) ==
    /\ ~InDelegate(t, l)
    /\ InDelegate(t, l)'

\* C12: whenever the delegate's OnEvent is being invoked, the invoking thread
\* holds the listener's lock, and muted was false when the invocation began.
C12_DelegateUnderLockUnmuted ==
    /\ [](\A t \in Threads, l \in Listeners :
            InDelegate(t, l) => owner[l] = t /\ depth[l] >= 1)
    /\ [][\A t \in Threads, l \in Listeners :
            DelegateEntered(t, l) => ~muted[l] /\ owner[l] = t]_vars

\* The delegate is being invoked while a Mute of another thread waits for
\* the lock.
C12_Witness ==
    \E t, u \in Threads : \E l \in Listeners :
        /\ InDelegate(t, l)
        /\ ~Idle(u)
        /\ Top(u).kind = "mute"
        /\ Top(u).l = l
        /\ Top(u).pc = "lock"

----------------------------------------------------------------------------
(* C13 *)

\* Thread t is inside a Mute of listener l and holds its lock there.
MuteHoldsLock(t, l) ==
    /\ ~Idle(t)
    /\ Top(t).kind = "mute"
    /\ Top(t).l = l
    /\ Top(t).pc \in {"set", "unlock"}

\* Thread t is inside a Mute of listener l that began while another thread
\* was inside a delegate call of l.
MuteBegunDuringDelegate(t, l) ==
    /\ t \in waitingMute
    /\ ~Idle(t)
    /\ Top(t).kind = "mute"
    /\ Top(t).l = l

\* C13 as stated: from the moment a thread starts Mute while another thread
\* is inside a delegate call, no further delegate call of the listener begins
\* before that Mute returns.
C13_NoDelegateWhileMuteWaits ==
    [][\A t \in Threads, l \in Listeners :
        MuteBegunDuringDelegate(t, l) => delivered'[l] = delivered[l]]_vars

\* C13 amended: a Mute may wait for more than one delegate call, but from the
\* moment it holds the lock no delegate call of the listener begins before it
\* returns.
C13_NoDelegateWhileMuteHoldsLock ==
    [][\A t \in Threads, l \in Listeners :
        MuteHoldsLock(t, l) => delivered'[l] = delivered[l]]_vars

\* A Mute that began during a delegate call holds the lock after a second
\* delegate call was made.
C13_Witness ==
    \E t \in Threads, l \in Listeners :
        /\ MuteBegunDuringDelegate(t, l)
        /\ MuteHoldsLock(t, l)
        /\ Len(delivered[l]) = 2

----------------------------------------------------------------------------
(* C14 *)

\* The i-th frame of thread t is a delivery task inside its delegate call.
DelegateFrame(t, i) ==
    /\ i \in 1..Len(stack[t])
    /\ stack[t][i].kind = "task"
    /\ stack[t][i].pc = "delegate"

\* C14: Mute does not interrupt a delivery that has passed the muted check: a
\* delegate call in progress stays in progress with its event through every
\* step, Mute steps included, until its own thread returns from it, and its
\* delivery stays recorded; a task skips the delegate only when muted is set.
C14_MuteDoesNotInterrupt ==
    /\ [](\A t \in Threads : \A i \in 1..Len(stack[t]) :
            (stack[t][i].kind = "task" /\ stack[t][i].pc = "done")
                => muted[stack[t][i].l])
    /\ [][/\ \A t \in Threads : \A i \in 1..Len(stack[t]) :
                DelegateFrame(t, i) =>
                    \/ /\ Len(stack'[t]) >= i
                       /\ stack'[t][i] = stack[t][i]
                    \/ /\ i = Len(stack[t])
                       /\ stack'[t] = SubSeq(stack[t], 1, i - 1)
          /\ \A l \in Listeners : IsPrefix(delivered[l], delivered'[l])]_vars

\* A delegate call is still in progress after a Mute called from inside it
\* has set muted and returned, while another task of the listener is queued.
C14_Witness ==
    \E t \in Threads, l \in Listeners :
        /\ ~Idle(t)
        /\ Top(t).kind = "task"
        /\ Top(t).l = l
        /\ Top(t).pc = "delegate"
        /\ muted[l]
        /\ muteReturned[l]
        /\ TasksOf(l) # {}

----------------------------------------------------------------------------
(* C15 *)

\* Thread t takes a step of the call on top of its stack, which is of kind k.
StepOf(t, k) ==
    /\ ~Idle(t)
    /\ Top(t).kind = k
    /\ stack'[t] # stack[t]

\* C15: Mute cancels no task and a muted listener still accepts events: Mute
\* leaves the queued tasks as they are, OnEvent on a muted listener submits
\* its task, and a task that runs while muted is set takes the lock, leaves
\* muted and the delegate alone, releases the lock and completes.
C15_MuteCancelsNothing ==
    /\ [](\A t \in Threads :
            /\ (~Idle(t) /\ Top(t).kind = "onevent" /\ muted[Top(t).l])
                  => ENABLED OnEventSubmit(t)
            /\ (~Idle(t) /\ Top(t).kind = "task" /\ Top(t).pc = "done")
                  => ENABLED TaskFinish(t))
    /\ [][\A t \in Threads :
            /\ StepOf(t, "mute") => queue' = queue
            /\ (StepOf(t, "onevent") /\ muted[Top(t).l])
                  => queue' = Append(queue, [l |-> Top(t).l, id |-> Top(t).id,
                                             ev |-> Top(t).ev])
            /\ (StepOf(t, "task") /\ muted[Top(t).l] /\ Top(t).pc \in {"check", "done"})
                  => /\ muted' = muted
                     /\ delivered' = delivered
                     /\ destroyed' = destroyed \/ refs[Top(t).l] = 1
                     /\ Top(t).pc = "check" =>
                            /\ stack'[t] = SetPc(t, "done")[t]
                            /\ owner'[Top(t).l] = t
                     /\ Top(t).pc = "done" =>
                            /\ stack'[t] = Pop(t)[t]
                            /\ depth'[Top(t).l] = depth[Top(t).l] - 1]_vars

\* On a muted listener, an event received after the Mute has been submitted
\* and its task has run to the end without a delivery.
C15_Witness ==
    \E l \in Listeners :
        /\ AllIdle
        /\ queue = <<>>
        /\ muted[l]
        /\ Len(submitted[l]) = 2
        /\ Len(delivered[l]) = 1
        /\ 2 \in lockedAfterReturn
        /\ owner[l] = None

----------------------------------------------------------------------------
(* C16 *)

Entries(seq) == {seq[i] : i \in 1..Len(seq)}

\* C16: every event the delegate receives is the value-or-error that was
\* passed to the OnEvent call it comes from, for success values and errors
\* alike, and the closure-backed delegate hands its callback the same payload.
C16_PayloadForwardedUnchanged ==
    \A l \in Listeners :
        /\ Entries(delivered[l]) \subseteq Entries(submitted[l])
        /\ callbackArgs[l] = delivered[l]
        /\ \A t \in Threads : \A i \in 1..Len(stack[t]) :
            (stack[t][i].kind = "task" /\ stack[t][i].l = l)
                => [id |-> stack[t][i].id, ev |-> stack[t][i].ev]
                        \in Entries(submitted[l])

\* An error result and a success value have both reached the callback.
C16_Witness ==
    \E l \in Listeners :
        /\ Len(callbackArgs[l]) = 2
        /\ \E i, j \in 1..2 :
            /\ callbackArgs[l][i].ev = <<"error", 13>>
            /\ callbackArgs[l][j].ev = <<"ok", 6>>

----------------------------------------------------------------------------
(* C17 *)

\* Thread t is about to take the lock of listener l, in a task or in Mute.
AtLock(t, l) ==
    /\ ~Idle(t)
    /\ Top(t).l = l
    /\ Top(t).kind \in {"task", "mute"}
    /\ Top(t).pc = "lock"

\* C17: two listeners on one executor are independent: a thread about to lock
\* one listener can do so whenever that listener's own lock allows it,
\* whoever holds the other's; and every step of a Mute or of a delivery task
\* of one listener leaves the other's muted flag, lock and deliveries as
\* they were.
C17_ListenersIndependent ==
    /\ [](\A t \in Threads, l \in Listeners :
            (AtLock(t, l) /\ owner[l] \in {None, t})
                => ENABLED (TaskLock(t) \/ MuteLock(t)))
    /\ [][\A t \in Threads, l \in Listeners :
            ( \/ StepOf(t, "mute") /\ Top(t).l = l
              \/ StepOf(t, "task") /\ Top(t).l = l /\ Len(stack'[t]) <= Len(stack[t])
              \/ /\ Len(stack'[t]) > Len(stack[t])
                 /\ stack'[t][Len(stack'[t])].kind = "mute"
                 /\ stack'[t][Len(stack'[t])].l = l )
            => \A k \in Listeners \ {l} :
                /\ muted'[k] = muted[k]
                /\ owner'[k] = owner[k]
                /\ depth'[k] = depth[k]
                /\ delivered'[k] = delivered[k]]_vars

\* Both delegates are being invoked at the same time, one of the listeners
\* being muted already and the other not.
C17_Witness ==
    \E t, u \in Threads : \E l, k \in Listeners :
        /\ l # k
        /\ t # u
        /\ InDelegate(t, l)
        /\ InDelegate(u, k)
        /\ muted[l]
        /\ ~muted[k]

----------------------------------------------------------------------------
(* C18 *)

\* Thread t is inside a Mute call.
InMute(t) == ~Idle(t) /\ Top(t).kind = "mute"

\* C18: with fair scheduling and terminating delegate calls, every Mute call
\* eventually returns, whatever delivery tasks run meanwhile, and a thread
\* that owns the lock eventually gives it up.
C18_MuteEventuallyReturns ==
    /\ \A t \in Threads : InMute(t) ~> ~InMute(t)
    /\ \A t \in Threads, l \in Listeners : (owner[l] = t) ~> (owner[l] # t)

\* A Mute that began during another thread's delegate call, and had to wait
\* for the lock, is about to return.
C18_Witness ==
    \E t \in Threads, l \in Listeners :
        /\ MuteBegunDuringDelegate(t, l)
        /\ Top(t).pc = "unlock"
        /\ muted[l]

----------------------------------------------------------------------------
(* C19 *)

\* The OnEvent call numbered id has been made on listener l: it is underway
\* or has submitted its task.
Received(l, id) ==
    \/ id \in Ids(submitted[l])
    \/ \E t \in Threads :
        /\ ~Idle(t)
        /\ Top(t).kind = "onevent"
        /\ Top(t).l = l
        /\ Top(t).id = id

\* C19: as long as Mute is not called, with terminating delegate calls and an
\* executor that eventually runs every task, every event passed to OnEvent is
\* eventually forwarded to the delegate, and never more than once.
C19_EveryEventDelivered ==
    /\ \A l \in Listeners, id \in 1..MaxEvents :
        Received(l, id) ~> (id \in Ids(delivered[l]) \/ muteCalls > 0)
    /\ [](\A l \in Listeners :
            /\ Cardinality(Ids(delivered[l])) = Len(delivered[l])
            /\ muteCalls = 0 => Ids(delivered[l]) \subseteq Ids(submitted[l]))

\* Without any Mute call, two events were received and both tasks have run,
\* each with its delivery.
C19_Witness ==
    \E l \in Listeners :
        /\ muteCalls = 0
        /\ AllIdle
        /\ queue = <<>>
        /\ mode = "concurrent"
        /\ Len(submitted[l]) = 2
        /\ Ids(delivered[l]) = {1, 2}

----------------------------------------------------------------------------
(* C20 *)

\* C20: the recursive lock of a listener is either free, or owned by exactly
\* one thread that is inside a delivery task's locked section or inside Mute,
\* held as many times as that thread has such sections open; no other thread
\* is in a locked section, and a thread that has left its calls owns nothing.
C20_LockDiscipline ==
    \A l \in Listeners :
        /\ \/ /\ owner[l] = None
              /\ depth[l] = 0
           \/ /\ owner[l] \in Threads
              /\ depth[l] >= 1
        /\ \A t \in Threads :
            /\ owner[l] = t => depth[l] = Cardinality(LockedFrames(t, l))
            /\ owner[l] # t => LockedFrames(t, l) = {}
            /\ Idle(t) => owner[l] # t

\* A thread holds the lock twice, in a delivery task and in the Mute its
\* delegate called, with two events submitted.
C20_Witness ==
    \E t \in Threads, l \in Listeners :
        /\ owner[l] = t
        /\ depth[l] = 2
        /\ Cardinality(LockedFrames(t, l)) = 2
        /\ Len(submitted[l]) = 2

====
